---- MODULE Spec2Model ----
(***************************************************************************)
(* Scheduling and publication state machine of the Twitter bot.           *)
(*                                                                         *)
(* Two orchestrators exist in the repository: the windowed one             *)
(* (src/unnamed/part_002, with reconciler, buffer and grace window) and    *)
(* the simple one (src/src/scheduled_poster.ts).  Two writers exist: the   *)
(* article-mode writer (src/src/post_writer.ts) and the discovery-mode     *)
(* writer (src/unnamed/part_001).  A deployment runs one orchestrator with *)
(* one writer; the pair is fixed in Init.                                  *)
(*                                                                         *)
(* Time is counted in minutes.  The external scheduler fires every         *)
(* CronPeriod minutes and starts at most one invocation per firing, so     *)
(* invocations never overlap; inside an invocation the clock may advance   *)
(* while the browser or the generator is awaited.                          *)
(***************************************************************************)
EXTENDS Integers, Sequences, FiniteSets, TLC

\* ---------------------------------------------------------------- bounds
\* the horizon, in minutes
MaxTime == 540
\* minutes the invocations may take in all
MaxRunMinutes == 1
\* environment failures injected in one behaviour
MaxFaults == 1
\* minutes between two firings of the external scheduler
CronPeriod == 180
\* longest model reply, in tokens
MaxReplyLen == 4
\* rows of the posts_news table
MaxArticles == 2
\* posts the topic selection loads
MaxPreviousPosts == 8
\* ready records two overlapping invocations start from
MaxOverlapPosts == 2
\* minutes between two firings of a scheduler that fires more often
FinePeriod == 150
\* preparations in a row
MaxPreparations == 2

\* ------------------------------------------------------ program constants
HOURS_BETWEEN_POSTS == 6
MAX_TIME_VARIATION_MS == 30
MIN_TIME_BEFORE_FIRST_POST_MS == 0
SCHEDULE_BUFFER_MINUTES == 30
SCHEDULE_GRACE_PERIOD_HOURS == 2
PublishMaxRetries == 2
ReadyFetchLimit == 5

NULL == -1
NoPost == 0
\* shortest body generateNewPost accepts, in characters
MinTweetLength == 10
\* passes of the generation loop of preparePostData
GenerationMaxRetries == 3
PreviousPostsLimit == 10
RecentTopicsWindow == 7

Orchestrators == {"windowed", "simple"}
Writers == {"article", "discovery"}

\* scheduled_poster.ts imports the post_writer.ts next to it; the windowed
\* orchestrator runs with either writer
Deployments ==
  {<<"windowed", "article">>, <<"windowed", "discovery">>, <<"simple", "article">>}

VARIABLES fired, orch, writer, site, clock, posts, handed, pc, loc, lastCall, sweeps,
          storeFaults, failures, exitCode, articles

vars == <<fired, orch, writer, site, clock, posts, handed, pc, loc, lastCall, sweeps,
          storeFaults, failures, exitCode, articles>>

\* ------------------------------------------------------------ the store
Ids == 1..Len(posts)

StatusIs(s) == {i \in Ids : posts[i].status = s}

NewPost(status, text, sched, err) ==
  [status |-> status, posted_text |-> text, scheduled_time_utc |-> sched,
   posted_at_utc |-> NULL, post_url |-> "NULL", error_message |-> err]

\* ORDER BY scheduled_time_utc ASC; rows with equal keys keep insertion order
Before(j, i) ==
  \/ posts[j].scheduled_time_utc < posts[i].scheduled_time_utc
  \/ /\ posts[j].scheduled_time_utc = posts[i].scheduled_time_utc
     /\ j < i

\* the first n rows of S in that order
Limit(S, n) == {i \in S : Cardinality({j \in S : Before(j, i)}) < n}

\* environment failures still to be injected: store errors (storeFaults);
\* kills, browser failures and generator failures (failures)
FaultBudget == MaxFaults - storeFaults - failures

StoreOutcomes == IF FaultBudget > 0 THEN {TRUE, FALSE} ELSE {TRUE}

Cost(ok) == IF ok THEN 0 ELSE 1

\* a step in which nStore store calls and nOther external calls fail
Spend(nStore, nOther) ==
  /\ nStore + nOther <= FaultBudget
  /\ storeFaults' = storeFaults + nStore
  /\ failures' = failures + nOther

Fault(ok) == Spend(Cost(ok), 0)

\* ------------------------------------------------------------- planner
\* variant: the jitter scaled twice
getRandomVariationMs_Wide ==
  {0 - 2 * MAX_TIME_VARIATION_MS, 0, 2 * MAX_TIME_VARIATION_MS - 1}

\* samples of (Math.random() * 2 - 1) * MAX_TIME_VARIATION_MS, in [-30, 30)
getRandomVariationMs == {0 - MAX_TIME_VARIATION_MS, 0, MAX_TIME_VARIATION_MS - 1}

Abs(x) == IF x < 0 THEN 0 - x ELSE x

\* ------------------------------------------------------------ executor
AttemptOutcomes ==
  {"goto_throws", "no_editor", "no_button", "settle_throws",
   "confirmed_url", "confirmed_nourl", "recovery_throws"}

LoginOutcomes == {"present", "absent", "count_rejects", "goto_throws"}

PublishEnvs ==
  [launch : {"ok", "throws"}, login : LoginOutcomes,
   attempts : [1..(PublishMaxRetries + 1) -> AttemptOutcomes]]

NoCall ==
  [target |-> NoPost, checkedAt |-> NULL, ret |-> "NONE", login |-> "none",
   loginFailed |-> FALSE, exhausted |-> FALSE,
   nav |-> 0, typed |-> 0, clicks |-> 0, attempts |-> 0]

\* the article writer verifies the login before it composes
LoginCheckPasses(login) == login \in {"present", "absent"}

\* variant: an attempt without a recovered permalink returns null
ConfirmedResult_UrlRequired(w, outcome) ==
  IF outcome = "confirmed_url" THEN "URL" ELSE "NULL"

\* what one call returns when the settle wait of an attempt has elapsed: the
\* permalink if it was recovered; otherwise (nothing found, or the recovery
\* raised and was caught) the marker in the article writer and null in the
\* discovery writer
ConfirmedResult(w, outcome) ==
  IF outcome = "confirmed_url" THEN "URL"
  ELSE IF w = "article" THEN "POSTED_SUCCESSFULLY" ELSE "NULL"

\* variant: no retry after an attempt that raised
PostingLoop_NoRetry(w, att, retryCount, acc) ==
  IF att[retryCount + 1] \in {"confirmed_url", "confirmed_nourl", "recovery_throws"}
    THEN [acc EXCEPT !.nav = @ + 1, !.typed = @ + 1, !.clicks = @ + 1,
                     !.attempts = @ + 1,
                     !.ret = ConfirmedResult(w, att[retryCount + 1])]
  ELSE [acc EXCEPT !.nav = @ + 1, !.attempts = @ + 1, !.ret = "NULL",
                   !.exhausted = TRUE]

RECURSIVE PostingLoop(_, _, _, _)
PostingLoop(w, att, retryCount, acc) ==
  LET o == att[retryCount + 1]
      typed == o \notin {"goto_throws", "no_editor"}
      clicked == o \in {"settle_throws", "confirmed_url", "confirmed_nourl",
                        "recovery_throws"}
      acc2 == [acc EXCEPT !.nav = @ + 1,
                          !.typed = @ + (IF typed THEN 1 ELSE 0),
                          !.clicks = @ + (IF clicked THEN 1 ELSE 0),
                          !.attempts = @ + 1]
  IN IF o \in {"confirmed_url", "confirmed_nourl", "recovery_throws"}
       THEN [acc2 EXCEPT !.ret = ConfirmedResult(w, o)]
     ELSE IF retryCount < PublishMaxRetries
       THEN PostingLoop(w, att, retryCount + 1, acc2)
     ELSE [acc2 EXCEPT !.ret = "NULL", !.exhausted = TRUE]

publishTwitterPost(w, env) ==
  LET start == [NoCall EXCEPT !.login = IF w = "article" THEN env.login ELSE "none"]
  IN IF env.launch = "throws" THEN [start EXCEPT !.ret = "THROW", !.login = "none"]
     ELSE IF w = "article" /\ ~LoginCheckPasses(env.login)
       THEN [start EXCEPT !.ret = "NULL", !.loginFailed = TRUE]
     ELSE PostingLoop(w, env.attempts, 0, start)

NoEnv == [launch |-> "none", login |-> "none", attempts |-> <<>>]

\* what the orchestrator's run depends on: the value returned and how the call
\* ended; the step counters of the call are dropped
Outcome(r) == [NoCall EXCEPT !.ret = r.ret,
                             !.loginFailed = r.loginFailed,
                             !.exhausted = r.exhausted]

\* the set of distinct outcomes the executor can produce
PublishResults == {Outcome(publishTwitterPost(writer, e)) : e \in PublishEnvs}

\* ------------------------------------------------------- invocation state
NoLocals ==
  [postToPublish |-> NoPost, postPublishedInThisRun |-> FALSE,
   lastPostTimestampForScheduling |-> NULL, currentTimeUTC |-> NULL,
   nextScheduledTimeUTC |-> NULL,
   postImmediately |-> FALSE, savedPost |-> NoPost,
   processedPostIdInThisRun |-> NoPost]

Init ==
  /\ fired = TRUE
  /\ orch \in Orchestrators
  /\ writer \in Writers
  /\ <<orch, writer>> \in Deployments
  /\ site = NoEnv
  /\ clock = 0
  /\ posts = <<>>
  /\ handed = <<>>
  /\ pc = "idle"
  /\ loc = NoLocals
  /\ lastCall = NoCall
  /\ sweeps = 0
  /\ storeFaults = 0
  /\ failures = 0
  /\ exitCode = NULL
  /\ articles = <<>>

\* ------------------------------------------------- scheduler and process
\* the external scheduler waits until its next firing time
Tick ==
  /\ pc = "idle"
  /\ clock + CronPeriod <= MaxTime
  /\ clock' = clock + CronPeriod
  /\ fired' = TRUE
  /\ UNCHANGED <<orch, writer, site, posts, handed, pc, loc, lastCall, sweeps,
                 storeFaults, failures, exitCode, articles>>

\* time passes while an invocation waits for the browser or for the generator
Elapse ==
  /\ pc \in {"publish", "immPublish", "prepare", "nextPrepare"}
  /\ clock < MaxTime
  /\ clock % CronPeriod < MaxRunMinutes
  /\ clock' = clock + 1
  /\ UNCHANGED <<fired, orch, writer, site, posts, handed, pc, loc, lastCall, sweeps,
                 storeFaults, failures, exitCode, articles>>

\* variant: main() that goes straight to the publish check
MainEntry_NoSweep(o) == "find"

\* first step of main() in each orchestrator
MainEntry(o) == IF o = "windowed" THEN "reset" ELSE "find"

StartRun ==
  /\ pc = "idle"
  /\ fired
  /\ fired' = FALSE
  /\ pc' = MainEntry(orch)
  /\ loc' = NoLocals
  /\ lastCall' = NoCall
  /\ sweeps' = 0
  /\ exitCode' = NULL
  /\ UNCHANGED <<orch, writer, site, clock, posts, handed, storeFaults, failures, articles>>

\* main() returned: process.exit(0)
Exit ==
  /\ pc = "done"
  /\ pc' = "idle"
  /\ loc' = NoLocals
  /\ lastCall' = NoCall
  /\ sweeps' = 0
  /\ exitCode' = 0
  /\ UNCHANGED <<fired, orch, writer, site, clock, posts, handed, storeFaults, failures, articles>>

\* the external scheduler kills the process at an await
Kill ==
  /\ pc \notin {"idle", "done"}
  /\ FaultBudget > 0
  /\ failures' = failures + 1
  /\ pc' = "idle"
  /\ loc' = NoLocals
  /\ lastCall' = NoCall
  /\ sweeps' = 0
  /\ exitCode' = NULL
  /\ UNCHANGED <<fired, orch, writer, site, clock, posts, handed, storeFaults, articles>>

\* startup check of both orchestrators (SUPABASE_URL or the service key is not
\* defined): process.exit(1) before main() is called
ConfigMissing ==
  /\ pc = "idle"
  /\ fired
  /\ FaultBudget > 0
  /\ failures' = failures + 1
  /\ fired' = FALSE
  /\ exitCode' = 1
  /\ UNCHANGED <<orch, writer, site, clock, posts, handed, pc, loc, lastCall,
                 sweeps, storeFaults, articles>>

\* the row the process-level handlers of the windowed orchestrator insert
errorLog == NewPost("system_error", "NULL", NULL, "Uncaught exception")

\* process.on('uncaughtException') and process.on('unhandledRejection') of the
\* windowed orchestrator: insert errorLog if the store accepts it, then
\* process.exit(1)
UncaughtException ==
  /\ orch = "windowed"
  /\ pc \notin {"idle", "done"}
  /\ \E ok \in StoreOutcomes :
       /\ Spend(Cost(ok), 1)
       /\ IF ok
            THEN /\ posts' = Append(posts, errorLog)
                 /\ handed' = Append(handed, 0)
            ELSE UNCHANGED <<posts, handed>>
  /\ pc' = "idle"
  /\ loc' = NoLocals
  /\ lastCall' = NoCall
  /\ sweeps' = 0
  /\ exitCode' = 1
  /\ UNCHANGED <<fired, orch, writer, site, clock, articles>>

\* main().catch of the windowed orchestrator: the promise of main() rejected,
\* the error is logged and the process exits with code 1
MainRejected ==
  /\ orch = "windowed"
  /\ pc \notin {"idle", "done"}
  /\ FaultBudget > 0
  /\ failures' = failures + 1
  /\ pc' = "idle"
  /\ loc' = NoLocals
  /\ lastCall' = NoCall
  /\ sweeps' = 0
  /\ exitCode' = 1
  /\ UNCHANGED <<fired, orch, writer, site, clock, posts, handed, storeFaults, articles>>

\* --------------------------------------------------------- store updates
\* variant: the success update that also moves scheduled_time_utc
MarkPosted_Reschedule(id, postUrl, at) ==
  [posts EXCEPT ![id] = [@ EXCEPT !.status = "posted",
                                  !.posted_at_utc = at,
                                  !.scheduled_time_utc = at,
                                  !.error_message = "NULL"]]

MarkPosted(id, postUrl, at) ==
  [posts EXCEPT ![id] =
     [@ EXCEPT !.status = "posted",
               !.post_url = IF postUrl = "POSTED_SUCCESSFULLY"
                              THEN "https://x.com/posted-successfully"
                              ELSE postUrl,
               !.posted_at_utc = at,
               !.error_message = "NULL"]]

\* variant: the failure update that leaves posted_at_utc alone
MarkFailed_NoTime(id, message, at) ==
  [posts EXCEPT ![id] = [@ EXCEPT !.status = "failed_to_post",
                                  !.error_message = message]]

\* variant: the failure update that leaves error_message alone
MarkFailed_NoMessage(id, message, at) ==
  [posts EXCEPT ![id] = [@ EXCEPT !.status = "failed_to_post",
                                  !.posted_at_utc = at]]

MarkFailed(id, message, at) ==
  [posts EXCEPT ![id] =
     [@ EXCEPT !.status = "failed_to_post",
               !.error_message = message,
               !.posted_at_utc = at]]

\* variant: the update without its .eq('id', post.id) filter
MarkMissed_EveryRow(S) ==
  [i \in Ids |->
     IF S # {}
       THEN [posts[i] EXCEPT !.status = "missed_schedule",
                             !.error_message = "Post missed its scheduled time."]
       ELSE posts[i]]

MarkMissed(S) ==
  [i \in Ids |->
     IF i \in S
       THEN [posts[i] EXCEPT !.status = "missed_schedule",
                             !.error_message = "Post missed its scheduled time."]
       ELSE posts[i]]

\* error_message written by the scheduled publish path of the windowed main
FailureMessage(ret) ==
  IF ret = "THROW" THEN "Publishing error"
  ELSE "Publishing failed or URL not retrieved."

\* variant: any returned value counts as published
Truthy_NotThrown(ret) == ret # "THROW"

\* a truthy postUrl: a permalink or the POSTED_SUCCESSFULLY marker
Truthy(ret) == ret \in {"URL", "POSTED_SUCCESSFULLY"}

\* the call made by the orchestrators: hand the body of post id to the executor
CallExecutor(id, checkedAt) ==
  /\ \E r \in PublishResults :
       /\ Spend(0, Cost(Truthy(r.ret)))
       /\ lastCall' = [r EXCEPT !.target = id, !.checkedAt = checkedAt]
  /\ handed' = [handed EXCEPT ![id] = @ + 1]

\* --------------------------------------------- windowed orchestrator
\* variant: a window that opens three hours before the scheduled time
isTimeToPost_Early(scheduledTime, now) ==
  /\ now >= scheduledTime - 6 * SCHEDULE_BUFFER_MINUTES
  /\ now <= scheduledTime + SCHEDULE_GRACE_PERIOD_HOURS * 60

\* variant: no upper end of the posting window
isTimeToPost_NoGrace(scheduledTime, now) ==
  now >= scheduledTime - SCHEDULE_BUFFER_MINUTES

isTimeToPost(scheduledTime, now) ==
  /\ now >= scheduledTime - SCHEDULE_BUFFER_MINUTES
  /\ now <= scheduledTime + SCHEDULE_GRACE_PERIOD_HOURS * 60

\* variant: a post counts as orphaned after a day
cutoffTime_Day(now) == now - 24 * 60

\* variant: one more hour before a post counts as orphaned
cutoffTime_Late(now) == now - (SCHEDULE_GRACE_PERIOD_HOURS + 2) * 60

\* cutoffTime.setHours(cutoffTime.getHours() - (SCHEDULE_GRACE_PERIOD_HOURS + 1))
cutoffTime(now) == now - (SCHEDULE_GRACE_PERIOD_HOURS + 1) * 60

\* variant: the select without its status filter
orphanedPosts_AnyStatus(now) ==
  {i \in Ids : posts[i].scheduled_time_utc < cutoffTime(now)}

orphanedPosts(now) ==
  {i \in StatusIs("ready_to_post") : posts[i].scheduled_time_utc < cutoffTime(now)}

\* resetOrphanedPosts: the select, then one update per row; an update whose
\* result carries an error leaves its row as it was
resetOrphanedPosts ==
  /\ orch = "windowed"
  /\ pc = "reset"
  /\ \E ok \in StoreOutcomes :
       IF ~ok
         THEN /\ Fault(ok)
              /\ UNCHANGED posts
         ELSE \E lost \in SUBSET orphanedPosts(clock) :
                /\ Spend(Cardinality(lost), 0)
                /\ posts' = MarkMissed(orphanedPosts(clock) \ lost)
  /\ sweeps' = sweeps + 1
  /\ pc' = "find"
  /\ UNCHANGED <<fired, orch, writer, site, clock, handed, loc, lastCall, exitCode, articles>>

\* the post findReadyPost returns, if any: the first fetched row in its window
readyInWindow(now) ==
  LET fetched == Limit(StatusIs("ready_to_post"), ReadyFetchLimit)
      due == {i \in fetched : isTimeToPost(posts[i].scheduled_time_utc, now)}
  IN {i \in due : \A j \in due : j = i \/ Before(i, j)}

findReadyPost ==
  /\ orch = "windowed"
  /\ pc = "find"
  /\ \E ok \in StoreOutcomes :
       /\ Fault(ok)
       /\ IF ok /\ readyInWindow(clock) # {}
            THEN \E i \in readyInWindow(clock) :
                   /\ loc' = [loc EXCEPT !.postToPublish = i]
                   /\ lastCall' = [NoCall EXCEPT !.checkedAt = clock]
                   /\ pc' = "publish"
            ELSE /\ pc' = "need"
                 /\ UNCHANGED <<loc, lastCall>>
  /\ UNCHANGED <<fired, orch, writer, site, clock, posts, handed, sweeps, exitCode, articles>>

\* main, line 171: publishTwitterPost(postToPublish.posted_text)
W_Publish ==
  /\ orch = "windowed"
  /\ pc = "publish"
  /\ CallExecutor(loc.postToPublish, lastCall.checkedAt)
  /\ loc' = [loc EXCEPT !.currentTimeUTC = clock]
  /\ pc' = "update"
  /\ UNCHANGED <<fired, orch, writer, site, clock, posts, sweeps, exitCode, articles>>

\* main, lines 175-221: the status write that follows the publish call
W_Update ==
  /\ orch = "windowed"
  /\ pc = "update"
  /\ \E ok \in StoreOutcomes :
       /\ Fault(ok)
       /\ IF Truthy(lastCall.ret)
            THEN /\ posts' = IF ok THEN MarkPosted(loc.postToPublish, lastCall.ret,
                                                   loc.currentTimeUTC)
                                   ELSE posts
                 /\ loc' = [loc EXCEPT !.postPublishedInThisRun = TRUE,
                                       !.lastPostTimestampForScheduling =
                                           loc.currentTimeUTC]
            ELSE /\ posts' = IF ok
                               THEN MarkFailed(loc.postToPublish,
                                      FailureMessage(lastCall.ret),
                                      IF lastCall.ret = "THROW"
                                        THEN clock ELSE loc.currentTimeUTC)
                               ELSE posts
                 /\ UNCHANGED loc
  /\ pc' = "need"
  /\ UNCHANGED <<fired, orch, writer, site, clock, handed, lastCall, sweeps, exitCode, articles>>

\* variant: a new post is prepared on every run
needToPreparePosts_Always(ok) == TRUE

\* needToPreparePosts, lines 227-248
needToPreparePosts(ok) ==
  IF ~ok THEN TRUE
  ELSE loc.postPublishedInThisRun \/ StatusIs("ready_to_post") = {}

W_Need ==
  /\ orch = "windowed"
  /\ pc = "need"
  /\ \E ok \in StoreOutcomes :
       /\ Fault(ok)
       /\ pc' = IF needToPreparePosts(ok) THEN "prepare" ELSE "done"
       /\ loc' = IF needToPreparePosts(ok) THEN loc ELSE NoLocals
  /\ UNCHANGED <<fired, orch, writer, site, clock, posts, handed, lastCall, sweeps, exitCode, articles>>

\* ----------------------------------------------------- content preparation
\* what preparePostData reports: success with a body, or failure with a message
PrepareOutcomes == {"success", "failure"}

\* posted_at_utc of the first row of: status = posted ORDER BY posted_at_utc DESC
lastSuccess ==
  LET done == {i \in StatusIs("posted") : posts[i].posted_at_utc # NULL}
  IN IF done = {} THEN NULL
     ELSE CHOOSE t \in {posts[i].posted_at_utc : i \in done} :
            \A i \in done : posts[i].posted_at_utc <= t

\* the anchor of the next schedule: the publish of this run, else the lookup
SchedulingAnchor(ok) ==
  IF loc.lastPostTimestampForScheduling # NULL
    THEN loc.lastPostTimestampForScheduling
  ELSE IF ok THEN lastSuccess ELSE NULL

\* delay added when a computed time lies in the past
ClampDelay(o) == IF o = "simple" THEN 1 ELSE 0

\* variant: the computed time is kept as it is
ClampToFuture_Off(o, t, now, variation) == t

\* "Ensure next post is not scheduled in the past"
ClampToFuture(o, t, now, variation) ==
  IF t < now THEN now + ClampDelay(o) + Abs(variation) ELSE t

\* the schedules the planner can compute: [time, immediate]
nextScheduledTimeUTC(o, anchor, now, firstPostAllowed) ==
  IF anchor # NULL
    THEN {[time |-> ClampToFuture(o, anchor + HOURS_BETWEEN_POSTS * 60 + v, now, w),
           immediate |-> FALSE] :
            v \in getRandomVariationMs, w \in getRandomVariationMs}
  ELSE IF MIN_TIME_BEFORE_FIRST_POST_MS = 0 /\ firstPostAllowed
    THEN {[time |-> now, immediate |-> TRUE]}
  ELSE {[time |-> ClampToFuture(o, now + MIN_TIME_BEFORE_FIRST_POST_MS + v, now, w),
         immediate |-> FALSE] :
          v \in getRandomVariationMs, w \in getRandomVariationMs}

Insert(row) ==
  /\ posts' = Append(posts, row)
  /\ handed' = Append(handed, 0)

\* main, lines 255-470: preparePostData(), last-success lookup, schedule,
\* insert of the new row
W_Prepare ==
  /\ orch = "windowed"
  /\ pc = "prepare"
  /\ \E d \in PrepareOutcomes, okLookup \in BOOLEAN, okInsert \in BOOLEAN :
       /\ okLookup \/ loc.lastPostTimestampForScheduling = NULL
       /\ Spend(Cost(okLookup) + Cost(okInsert), Cost(d = "success"))
       /\ \E plan \in nextScheduledTimeUTC(orch, SchedulingAnchor(okLookup), clock, TRUE) :
            /\ IF d = "success"
                 THEN /\ IF okInsert
                           THEN Insert(NewPost("ready_to_post", "text", plan.time, "NULL"))
                           ELSE UNCHANGED <<posts, handed>>
                      /\ IF plan.immediate /\ okInsert
                           THEN /\ pc' = "immPublish"
                                /\ loc' = [NoLocals EXCEPT
                                             !.nextScheduledTimeUTC = plan.time,
                                             !.postImmediately = TRUE,
                                             !.savedPost = Len(posts) + 1]
                           ELSE /\ pc' = "done"
                                /\ loc' = NoLocals
                 ELSE /\ IF okInsert
                           THEN Insert(NewPost("generation_failed", "NULL", plan.time,
                                               "generation error"))
                           ELSE UNCHANGED <<posts, handed>>
                      /\ pc' = "done"
                      /\ loc' = NoLocals
  /\ UNCHANGED <<fired, orch, writer, site, clock, lastCall, sweeps, exitCode, articles>>

\* main, line 344: publishTwitterPost(savedPost.posted_text); an exception
\* ends the run in the catch of line 431
W_ImmPublish ==
  /\ orch = "windowed"
  /\ pc = "immPublish"
  /\ CallExecutor(loc.savedPost, loc.nextScheduledTimeUTC)
  /\ loc' = IF lastCall'.ret = "THROW" THEN NoLocals
            ELSE [loc EXCEPT !.currentTimeUTC = clock]
  /\ pc' = IF lastCall'.ret = "THROW" THEN "done" ELSE "immUpdate"
  /\ UNCHANGED <<fired, orch, writer, site, clock, posts, sweeps, exitCode, articles>>

\* main, lines 348-430
W_ImmUpdate ==
  /\ orch = "windowed"
  /\ pc = "immUpdate"
  /\ \E ok \in StoreOutcomes :
       /\ Fault(ok)
       /\ IF Truthy(lastCall.ret)
            THEN /\ posts' = IF ok THEN MarkPosted(loc.savedPost, lastCall.ret,
                                                   loc.currentTimeUTC)
                                   ELSE posts
                 /\ pc' = "nextPrepare"
                 /\ UNCHANGED loc
            ELSE /\ posts' = IF ok
                               THEN MarkFailed(loc.savedPost,
                                      "Immediate publishing failed or URL not retrieved.",
                                      loc.currentTimeUTC)
                               ELSE posts
                 /\ pc' = "done"
                 /\ loc' = NoLocals
  /\ UNCHANGED <<fired, orch, writer, site, clock, handed, lastCall, sweeps, exitCode, articles>>

\* main, lines 369-411: preparePostData() for the post after the immediate
\* one; only a successful preparation is inserted
W_NextPrepare ==
  /\ orch = "windowed"
  /\ pc = "nextPrepare"
  /\ \E d \in PrepareOutcomes :
       IF d = "success"
         THEN \E ok \in StoreOutcomes, v \in getRandomVariationMs :
                /\ Fault(ok)
                /\ IF ok
                     THEN Insert(NewPost("ready_to_post", "text",
                                         clock + HOURS_BETWEEN_POSTS * 60 + v, "NULL"))
                     ELSE UNCHANGED <<posts, handed>>
         ELSE /\ Spend(0, 1)
              /\ UNCHANGED <<posts, handed>>
  /\ pc' = "done"
  /\ loc' = NoLocals
  /\ UNCHANGED <<fired, orch, writer, site, clock, lastCall, sweeps, exitCode, articles>>

\* ------------------------------------------------- simple orchestrator
\* main, lines 48-67 and 96-101: the earliest ready post, published when fired
S_Find ==
  /\ orch = "simple"
  /\ pc = "find"
  /\ \E ok \in StoreOutcomes :
       /\ Fault(ok)
       /\ LET readyPosts == IF ok THEN Limit(StatusIs("ready_to_post"), 1) ELSE {}
          IN IF readyPosts = {}
               THEN /\ pc' = "need"
                    /\ UNCHANGED <<loc, lastCall>>
               ELSE \E i \in readyPosts :
                      IF posts[i].scheduled_time_utc <= clock
                        THEN /\ loc' = [loc EXCEPT !.postToPublish = i,
                                                   !.processedPostIdInThisRun = i]
                             /\ lastCall' = [NoCall EXCEPT !.checkedAt = clock]
                             /\ pc' = "publish"
                        ELSE /\ loc' = NoLocals
                             /\ UNCHANGED lastCall
                             /\ pc' = "done"
  /\ UNCHANGED <<fired, orch, writer, site, clock, posts, handed, sweeps, exitCode, articles>>

\* main, line 69; an exception ends the run in the catch of line 232
S_Publish ==
  /\ orch = "simple"
  /\ pc = "publish"
  /\ CallExecutor(loc.postToPublish, lastCall.checkedAt)
  /\ loc' = IF lastCall'.ret = "THROW" THEN NoLocals
            ELSE [loc EXCEPT !.currentTimeUTC = clock]
  /\ pc' = IF lastCall'.ret = "THROW" THEN "done" ELSE "update"
  /\ UNCHANGED <<fired, orch, writer, site, clock, posts, sweeps, exitCode, articles>>

\* main, lines 72-95
S_Update ==
  /\ orch = "simple"
  /\ pc = "update"
  /\ \E ok \in StoreOutcomes :
       /\ Fault(ok)
       /\ IF Truthy(lastCall.ret)
            THEN /\ posts' = IF ok THEN MarkPosted(loc.postToPublish, lastCall.ret,
                                                   loc.currentTimeUTC)
                                   ELSE posts
                 /\ loc' = [loc EXCEPT !.postPublishedInThisRun = TRUE,
                                       !.lastPostTimestampForScheduling =
                                           loc.currentTimeUTC]
            ELSE /\ posts' = IF ok
                               THEN MarkFailed(loc.postToPublish,
                                      "Publishing failed or URL not retrieved.",
                                      loc.currentTimeUTC)
                               ELSE posts
                 /\ UNCHANGED loc
  /\ pc' = "need"
  /\ UNCHANGED <<fired, orch, writer, site, clock, handed, lastCall, sweeps, exitCode, articles>>

\* main, lines 108-127
shouldPrepareNextPost(ok) ==
  \/ loc.postPublishedInThisRun
  \/ ~ok
  \/ StatusIs("ready_to_post") = {}

S_Need ==
  /\ orch = "simple"
  /\ pc = "need"
  /\ \E ok \in StoreOutcomes :
       /\ Fault(ok)
       /\ pc' = IF shouldPrepareNextPost(ok) THEN "schedule" ELSE "done"
       /\ loc' = IF shouldPrepareNextPost(ok) THEN loc ELSE NoLocals
  /\ UNCHANGED <<fired, orch, writer, site, clock, posts, handed, lastCall, sweeps, exitCode, articles>>

\* main, lines 132-166: the schedule is computed before the content is prepared
S_Schedule ==
  /\ orch = "simple"
  /\ pc = "schedule"
  /\ \E ok \in StoreOutcomes :
       /\ ok \/ loc.lastPostTimestampForScheduling = NULL
       /\ Fault(ok)
       /\ \E plan \in nextScheduledTimeUTC(orch, SchedulingAnchor(ok), clock,
                                           loc.processedPostIdInThisRun = NoPost) :
            loc' = [loc EXCEPT !.nextScheduledTimeUTC = plan.time,
                               !.postImmediately = plan.immediate]
  /\ pc' = "prepare"
  /\ UNCHANGED <<fired, orch, writer, site, clock, posts, handed, lastCall, sweeps, exitCode, articles>>

\* main, lines 169-226: preparePostData(), then the insert of the new row
\* (appendPostToLog logs an insert error, the immediate path throws it)
S_Prepare ==
  /\ orch = "simple"
  /\ pc = "prepare"
  /\ \E d \in PrepareOutcomes, ok \in StoreOutcomes :
       /\ Spend(Cost(ok), Cost(d = "success"))
       /\ IF loc.postImmediately /\ ok /\ d = "success"
            THEN loc' = [NoLocals EXCEPT
                           !.nextScheduledTimeUTC = loc.nextScheduledTimeUTC,
                           !.postImmediately = TRUE,
                           !.savedPost = Len(posts) + 1]
            ELSE loc' = NoLocals
       /\ IF d = "success"
            THEN /\ IF ok
                      THEN Insert(NewPost("ready_to_post", "text",
                                          loc.nextScheduledTimeUTC, "NULL"))
                      ELSE UNCHANGED <<posts, handed>>
                 /\ pc' = IF loc.postImmediately /\ ok THEN "immPublish" ELSE "done"
            ELSE /\ IF ok
                      THEN Insert(NewPost("generation_failed", "NULL",
                                          loc.nextScheduledTimeUTC, "generation error"))
                      ELSE UNCHANGED <<posts, handed>>
                 /\ pc' = "done"
  /\ UNCHANGED <<fired, orch, writer, site, clock, lastCall, sweeps, exitCode, articles>>

\* main, line 197; an exception ends the run in the catch of line 227
S_ImmPublish ==
  /\ orch = "simple"
  /\ pc = "immPublish"
  /\ CallExecutor(loc.savedPost, loc.nextScheduledTimeUTC)
  /\ loc' = IF lastCall'.ret = "THROW" THEN NoLocals
            ELSE [loc EXCEPT !.currentTimeUTC = clock]
  /\ pc' = IF lastCall'.ret = "THROW" THEN "done" ELSE "immUpdate"
  /\ UNCHANGED <<fired, orch, writer, site, clock, posts, sweeps, exitCode, articles>>

\* main, lines 200-213
S_ImmUpdate ==
  /\ orch = "simple"
  /\ pc = "immUpdate"
  /\ \E ok \in StoreOutcomes :
       /\ Fault(ok)
       /\ posts' = IF ~ok THEN posts
                   ELSE IF Truthy(lastCall.ret)
                     THEN MarkPosted(loc.savedPost, lastCall.ret, loc.currentTimeUTC)
                   ELSE MarkFailed(loc.savedPost, "Immediate publishing failed.",
                                   loc.currentTimeUTC)
  /\ pc' = "done"
  /\ loc' = NoLocals
  /\ UNCHANGED <<fired, orch, writer, site, clock, handed, lastCall, sweeps, exitCode, articles>>

\* ------------------------------------------------------- specification
Next ==
  \/ Tick
  \/ Elapse
  \/ StartRun
  \/ Exit
  \/ Kill
  \/ ConfigMissing
  \/ UncaughtException
  \/ MainRejected
  \/ resetOrphanedPosts
  \/ findReadyPost
  \/ W_Publish
  \/ W_Update
  \/ W_Need
  \/ W_Prepare
  \/ W_ImmPublish
  \/ W_ImmUpdate
  \/ W_NextPrepare
  \/ S_Find
  \/ S_Publish
  \/ S_Update
  \/ S_Need
  \/ S_Schedule
  \/ S_Prepare
  \/ S_ImmPublish
  \/ S_ImmUpdate

Spec == Init /\ [][Next]_vars

\* ------------------------------------------- the executor on its own
\* one call of publishTwitterPost against a site whose behaviour is drawn in
\* the initial state; lastCall keeps the step counters of the call
InitExec ==
  /\ fired = FALSE
  /\ orch = "windowed"
  /\ writer \in Writers
  /\ site \in PublishEnvs
  /\ clock = 0
  /\ posts = <<>>
  /\ handed = <<>>
  /\ pc = "exec_ready"
  /\ loc = NoLocals
  /\ lastCall = NoCall
  /\ sweeps = 0
  /\ storeFaults = 0
  /\ failures = 0
  /\ exitCode = NULL
  /\ articles = <<>>

ExecCall ==
  /\ pc = "exec_ready"
  /\ lastCall' = publishTwitterPost(writer, site)
  /\ pc' = "exec_returned"
  /\ UNCHANGED <<fired, orch, writer, site, clock, posts, handed, loc, sweeps,
                 storeFaults, failures, exitCode, articles>>

NextExec == ExecCall

SpecExec == InitExec /\ [][NextExec]_vars

TypeOK ==
  /\ pc \in {"idle", "reset", "find", "publish", "update", "need", "prepare",
             "schedule", "immPublish", "immUpdate", "nextPrepare", "done",
             "exec_ready", "exec_returned", "gen_ready", "gen_returned",
             "prep_ready", "prep_returned", "prep_saved", "prep_posted",
             "topic_ready", "topic_returned"}
  /\ Len(handed) = Len(posts)
  /\ clock \in 0..MaxTime
  /\ FaultBudget >= 0

\* ------------------------------------------------------------ generator
\* a model reply is a sequence of tokens: the labels "A" (Persona Alignment
\* Check:), "G" (Generated Topic:) and "T" (Tweet:), and pieces of text: "w"
\* (plain), "s" (plain and short), "q" (holds a question mark), "e" (holds
\* the word error)
Tokens == {"A", "G", "T", "w", "s", "q", "e"}

Replies == UNION {[1..n -> Tokens] : n \in 0..MaxReplyLen}

\* characters of a token
TokenLength(t) ==
  CASE t = "A" -> 24
    [] t = "G" -> 16
    [] t = "T" -> 6
    [] t = "s" -> 3
    [] OTHER -> 12

RECURSIVE Length(_)
Length(text) ==
  IF text = <<>> THEN 0 ELSE TokenLength(Head(text)) + Length(Tail(text))

Includes(text, t) == \E i \in 1..Len(text) : text[i] = t

\* position of the first t in r at or after from, 0 if there is none
IndexOf(r, t, from) ==
  LET hits == {i \in from..Len(r) : r[i] = t}
  IN IF hits = {} THEN 0 ELSE CHOOSE i \in hits : \A j \in hits : i <= j

\* variant: only the length of the body is checked
Rejected_OnlyShort(text) == Length(text) < MinTweetLength

\* the check made on the extracted tweet: error-like, too short, or a question
Rejected(text) ==
  \/ Includes(text, "e")
  \/ Length(text) < MinTweetLength
  \/ Includes(text, "q")

\* what the model API does in one call
GenEnvs ==
  [api : {"ok"}, reply : Replies \ {<<>>}]
    \cup [api : {"throws", "no_content"}, reply : {<<>>}]

NoGeneration ==
  [tweet |-> <<>>, generatedTopic |-> <<>>, personaAlignmentCheckForLog |-> <<>>,
   rawOpenAIResponseForLog |-> <<>>]

\* generateNewPost: the three regular expressions and the check of the tweet;
\* an absent value (null) is the empty sequence
generateNewPost(env) ==
  IF env.api # "ok" THEN NoGeneration
  ELSE LET rawResponse == env.reply
           a == IndexOf(rawResponse, "A", 1)
           ga == IF a = 0 THEN 0 ELSE IndexOf(rawResponse, "G", a + 1)
           g == IndexOf(rawResponse, "G", 1)
           tg == IF g = 0 THEN 0 ELSE IndexOf(rawResponse, "T", g + 1)
           t == IndexOf(rawResponse, "T", 1)
           alignmentText == IF ga = 0 THEN <<>>
                            ELSE SubSeq(rawResponse, a + 1, ga - 1)
           finalGeneratedTopic == IF tg = 0 THEN <<>>
                                  ELSE SubSeq(rawResponse, g + 1, tg - 1)
           newTweetText == IF t = 0 THEN <<>>
                           ELSE SubSeq(rawResponse, t + 1, Len(rawResponse))
       IN [tweet |-> IF Rejected(newTweetText) THEN <<>> ELSE newTweetText,
           generatedTopic |-> finalGeneratedTopic,
           personaAlignmentCheckForLog |-> alignmentText,
           rawOpenAIResponseForLog |-> rawResponse]

\* one call of generateNewPost on a reply drawn in the initial state
InitGen ==
  /\ fired = FALSE
  /\ orch = "windowed"
  /\ writer \in Writers
  /\ site \in GenEnvs
  /\ clock = 0
  /\ posts = <<>>
  /\ handed = <<>>
  /\ pc = "gen_ready"
  /\ loc = NoLocals
  /\ lastCall = NoGeneration
  /\ sweeps = 0
  /\ storeFaults = 0
  /\ failures = 0
  /\ exitCode = NULL
  /\ articles = <<>>

GenCall ==
  /\ pc = "gen_ready"
  /\ lastCall' = generateNewPost(site)
  /\ pc' = "gen_returned"
  /\ UNCHANGED <<fired, orch, writer, site, clock, posts, handed, loc, sweeps,
                 storeFaults, failures, exitCode, articles>>

NextGen == GenCall

SpecGen == InitGen /\ [][NextGen]_vars

\* ------------------------------------------------- preparePostData
\* the replies the generation loop is run against
SampleGenEnvs ==
  {[api |-> "ok", reply |-> <<"T", "w">>],
   [api |-> "ok", reply |-> <<"T", "q">>],
   [api |-> "ok", reply |-> <<"T", "e">>],
   [api |-> "ok", reply |-> <<"T", "s">>],
   [api |-> "ok", reply |-> <<"w">>],
   [api |-> "throws", reply |-> <<>>]}

\* what one preparation meets: the selection (article writer: the select of
\* the pending article errs, or the content of the article cannot be fetched;
\* discovery writer: no topic with search context is found), whether the
\* store accepts the status updates, and the model's behaviour per attempt
PrepEnvs ==
  [selection : {"ok", "select_error", "content_fails", "no_topic"},
   updateOk : BOOLEAN,
   gens : [1..GenerationMaxRetries -> SampleGenEnvs]]

\* the posts_news rows the table can hold at the start
ArticleTables ==
  UNION {[1..n -> [timestamp : 1..2, status : {"pending", "processed"}]] :
           n \in 0..MaxArticles}

NoPrepared ==
  [success |-> FALSE, postText |-> <<>>, topic |-> <<>>, errorMessage |-> "NULL",
   articleId |-> 0, modelCalls |-> 0]

\* variant: every pending article is a candidate
fetchPendingArticle_Any(arts) ==
  {i \in 1..Len(arts) : arts[i].status = "pending"}

\* fetchPendingArticle: status pending, order by timestamp ascending, limit 1
fetchPendingArticle(arts) ==
  {i \in 1..Len(arts) :
     /\ arts[i].status = "pending"
     /\ \A j \in 1..Len(arts) :
          arts[j].status = "pending" => arts[i].timestamp <= arts[j].timestamp}

\* variant: the update that writes nothing
updateArticleStatus_Lost(arts, articleId, status, ok) == arts

\* updateArticleStatus: an error of the store is logged and ignored
updateArticleStatus(arts, articleId, status, ok) ==
  IF ok THEN [arts EXCEPT ![articleId].status = status] ELSE arts

\* variant: a single attempt
GenerationLoop_Once(gens, i) ==
  [tweet |-> generateNewPost(gens[i + 1]).tweet,
   generatedTopic |-> generateNewPost(gens[i + 1]).generatedTopic,
   modelCalls |-> i + 1]

\* for (let i = 0; i < maxRetries; i++): one generateNewPost call per pass,
\* left at the first pass that yields a tweet
RECURSIVE GenerationLoop(_, _)
GenerationLoop(gens, i) ==
  LET generationResult == generateNewPost(gens[i + 1])
  IN IF generationResult.tweet # <<>> \/ i >= GenerationMaxRetries - 1
       THEN [tweet |-> generationResult.tweet,
             generatedTopic |-> generationResult.generatedTopic,
             modelCalls |-> i + 1]
     ELSE GenerationLoop(gens, i + 1)

\* preparePostData of the two writers: the PreparedPostData it returns and the
\* posts_news table it leaves; pendingArticle is 0 when none was fetched
preparePostData(w, env, arts, pendingArticle) ==
  IF w = "article" /\ pendingArticle = 0
    THEN [result |-> [NoPrepared EXCEPT
                        !.errorMessage = "No pending articles found in posts_news table."],
          articles |-> arts]
  ELSE IF w = "article" /\ env.selection = "content_fails"
    THEN [result |-> [NoPrepared EXCEPT
                        !.errorMessage = "Failed to fetch article content",
                        !.articleId = pendingArticle],
          articles |-> updateArticleStatus(arts, pendingArticle, "failed", env.updateOk)]
  ELSE IF w = "discovery" /\ env.selection = "no_topic"
    THEN [result |-> [NoPrepared EXCEPT
                        !.errorMessage =
                          "Could not determine a unique topic or fetch search context."],
          articles |-> arts]
  ELSE LET processed == IF w = "article"
                          THEN updateArticleStatus(arts, pendingArticle, "processed",
                                                   env.updateOk)
                          ELSE arts
           g == GenerationLoop(env.gens, 0)
       IN IF g.tweet # <<>>
            THEN [result |-> [success |-> TRUE, postText |-> g.tweet,
                              topic |-> g.generatedTopic, errorMessage |-> "NULL",
                              articleId |-> pendingArticle,
                              modelCalls |-> g.modelCalls],
                  articles |-> processed]
          ELSE [result |-> [NoPrepared EXCEPT
                              !.topic = g.generatedTopic,
                              !.errorMessage =
                                "Failed to generate post content after multiple attempts.",
                              !.articleId = pendingArticle,
                              !.modelCalls = g.modelCalls],
                articles |-> IF w = "article"
                               THEN updateArticleStatus(processed, pendingArticle,
                                                        "failed", env.updateOk)
                               ELSE arts]

\* one preparation, the insert the orchestrator makes for it, and the later
\* successful publication of the inserted record
InitPrep ==
  /\ fired = FALSE
  /\ orch = "windowed"
  /\ writer \in Writers
  /\ site \in PrepEnvs
  /\ IF writer = "article"
       THEN site.selection # "no_topic" /\ articles \in ArticleTables
       ELSE /\ site.selection \in {"ok", "no_topic"}
            /\ site.updateOk
            /\ articles = <<>>
  /\ clock = 0
  /\ posts = <<>>
  /\ handed = <<>>
  /\ pc = "prep_ready"
  /\ loc = NoLocals
  /\ lastCall = NoPrepared
  /\ sweeps = 0
  /\ storeFaults = 0
  /\ failures = 0
  /\ exitCode = NULL

PrepCall ==
  /\ pc = "prep_ready"
  /\ \E pendingArticle \in
          IF writer = "article" /\ site.selection # "select_error"
               /\ fetchPendingArticle(articles) # {}
            THEN fetchPendingArticle(articles) ELSE {0} :
       LET r == preparePostData(writer, site, articles, pendingArticle)
       IN /\ lastCall' = r.result
          /\ articles' = r.articles
  /\ pc' = "prep_returned"
  /\ UNCHANGED <<fired, orch, writer, site, clock, posts, handed, loc, sweeps,
                 storeFaults, failures, exitCode>>

\* the insert of the orchestrators: ready_to_post when preparedData.success
\* and preparedData.postText, generation_failed with the message otherwise
PrepSave ==
  /\ pc = "prep_returned"
  /\ Insert(IF lastCall.success /\ lastCall.postText # <<>>
              THEN NewPost("ready_to_post", lastCall.postText, clock, "NULL")
              ELSE NewPost("generation_failed", lastCall.postText, clock,
                           lastCall.errorMessage))
  /\ pc' = "prep_saved"
  /\ UNCHANGED <<fired, orch, writer, site, clock, loc, lastCall, sweeps,
                 storeFaults, failures, exitCode, articles>>

\* the update of the orchestrators after the record was published
PrepPublish ==
  /\ pc = "prep_saved"
  /\ posts[Len(posts)].status = "ready_to_post"
  /\ posts' = MarkPosted(Len(posts), "URL", clock)
  /\ handed' = [handed EXCEPT ![Len(posts)] = 1]
  /\ pc' = "prep_posted"
  /\ UNCHANGED <<fired, orch, writer, site, clock, loc, lastCall, sweeps,
                 storeFaults, failures, exitCode, articles>>

NextPrep == PrepCall \/ PrepSave \/ PrepPublish

SpecPrep == InitPrep /\ [][NextPrep]_vars

\* every enabled step of the run is taken
FairPrep == SpecPrep /\ WF_vars(NextPrep)

\* ------------------------------------- getUniqueTopicAndFreshContext
\* a topic is a sequence of characters; the null topic is the empty sequence
PostTopics == {<<>>, <<"A">>, <<"b">>}
SearchTopics == {<<"a">>, <<"a", "b">>, <<"c">>}

toLowerCase(text) == [i \in 1..Len(text) |-> IF text[i] = "A" THEN "a" ELSE text[i]]

\* String.prototype.includes
includes(text, part) ==
  \E i \in 0..(Len(text) - Len(part)) : SubSeq(text, i + 1, i + Len(part)) = part

\* the test of the filter: substring in either direction, lower-cased
Overlaps(avoid, topic) ==
  \/ includes(toLowerCase(avoid), toLowerCase(topic))
  \/ includes(toLowerCase(topic), toLowerCase(avoid))

\* Array.prototype.slice(-n)
SliceLast(s, n) == IF Len(s) <= n THEN s ELSE SubSeq(s, Len(s) - n + 1, Len(s))

\* loadPreviousPosts: order by posted_at_utc descending, limit 10; the table
\* is given most recent first
loadPreviousPosts(table) ==
  IF Len(table) <= PreviousPostsLimit THEN table
  ELSE SubSeq(table, 1, PreviousPostsLimit)

\* previousPosts.map(p => p.topic).slice(-7).filter(not null)
recentTopicsToAvoid(previousPosts) ==
  LET sliced == SliceLast(previousPosts, RecentTopicsWindow)
  IN {sliced[i] : i \in 1..Len(sliced)} \ {<<>>}

filteredTopics(availableTopics, avoidList) ==
  {t \in availableTopics : ~\E avoid \in avoidList : Overlaps(avoid, t)}

\* the search topics one pass of the selection can end with, and whether the
\* topic comes from the search_topics table
\* touched is the topic whose last_used_at the pass set to the current time
searchTopicChoices(previousPosts, env) ==
  IF env.select # "ok" \/ env.availableTopics = {}
    THEN {[searchTopic |-> <<"f">>, fromTable |-> FALSE, touched |-> <<>>]}
  ELSE LET filtered == filteredTopics(env.availableTopics,
                                      recentTopicsToAvoid(previousPosts))
       IN IF filtered = {}
            THEN {[searchTopic |-> t, fromTable |-> TRUE, touched |-> <<>>] :
                    t \in env.availableTopics}
          ELSE {[searchTopic |-> t, fromTable |-> TRUE, touched |-> t] :
                  t \in filtered}

TopicEnvs ==
  [select : {"ok"}, availableTopics : SUBSET SearchTopics,
   table : UNION {[1..n -> PostTopics] : n \in 0..MaxPreviousPosts}]
    \cup [select : {"error"}, availableTopics : {{}}, table : {<<>>}]

NoTopic == [searchTopic |-> <<>>, fromTable |-> FALSE, touched |-> <<>>]

\* one pass of the topic selection of the discovery writer
InitTopic ==
  /\ fired = FALSE
  /\ orch = "windowed"
  /\ writer = "discovery"
  /\ site \in TopicEnvs
  /\ clock = 0
  /\ posts = <<>>
  /\ handed = <<>>
  /\ pc = "topic_ready"
  /\ loc = NoLocals
  /\ lastCall = NoTopic
  /\ sweeps = 0
  /\ storeFaults = 0
  /\ failures = 0
  /\ exitCode = NULL
  /\ articles = <<>>

TopicCall ==
  /\ pc = "topic_ready"
  /\ lastCall' \in searchTopicChoices(loadPreviousPosts(site.table), site)
  /\ pc' = "topic_returned"
  /\ UNCHANGED <<fired, orch, writer, site, clock, posts, handed, loc, sweeps,
                 storeFaults, failures, exitCode, articles>>

NextTopic == TopicCall

SpecTopic == InitTopic /\ [][NextTopic]_vars

\* ------------------------------------------- overlapping invocations
\* two invocations of the windowed orchestrator running at the same time, each
\* with its own read-then-write sequence: findReadyPost, publishTwitterPost,
\* the update by id. pc, loc and lastCall are per invocation here.
Invocations == {1, 2}

OverlapTables ==
  UNION {[1..n -> {NewPost("ready_to_post", "text", t, "NULL") : t \in {30, 60}}] :
           n \in 1..MaxOverlapPosts}

InitOverlap ==
  /\ fired = FALSE
  /\ orch = "windowed"
  /\ writer \in Writers
  /\ site = NoEnv
  /\ clock = 60
  /\ posts \in OverlapTables
  /\ handed = [i \in 1..Len(posts) |-> 0]
  /\ pc = [k \in Invocations |-> "find"]
  /\ loc = [k \in Invocations |-> NoPost]
  /\ lastCall = [k \in Invocations |-> "NONE"]
  /\ sweeps = 0
  /\ storeFaults = 0
  /\ failures = 0
  /\ exitCode = NULL
  /\ articles = <<>>

\* findReadyPost of invocation k
O_Find(k) ==
  /\ pc[k] = "find"
  /\ IF readyInWindow(clock) # {}
       THEN \E i \in readyInWindow(clock) :
              /\ loc' = [loc EXCEPT ![k] = i]
              /\ pc' = [pc EXCEPT ![k] = "publish"]
       ELSE /\ pc' = [pc EXCEPT ![k] = "need"]
            /\ UNCHANGED loc
  /\ UNCHANGED <<fired, orch, writer, site, clock, posts, handed, lastCall, sweeps,
                 storeFaults, failures, exitCode, articles>>

\* main, line 171, of invocation k
O_Publish(k) ==
  /\ pc[k] = "publish"
  /\ \E r \in PublishResults : lastCall' = [lastCall EXCEPT ![k] = r.ret]
  /\ handed' = [handed EXCEPT ![loc[k]] = @ + 1]
  /\ pc' = [pc EXCEPT ![k] = "update"]
  /\ UNCHANGED <<fired, orch, writer, site, clock, posts, loc, sweeps,
                 storeFaults, failures, exitCode, articles>>

\* main, lines 175-221, of invocation k: update(...).eq('id', postToPublish.id)
O_Update(k) ==
  /\ pc[k] = "update"
  /\ posts' = IF Truthy(lastCall[k])
                THEN MarkPosted(loc[k], lastCall[k], clock)
                ELSE MarkFailed(loc[k], FailureMessage(lastCall[k]), clock)
  /\ pc' = [pc EXCEPT ![k] = "need"]
  /\ UNCHANGED <<fired, orch, writer, site, clock, handed, loc, lastCall, sweeps,
                 storeFaults, failures, exitCode, articles>>

NextOverlap == \E k \in Invocations : O_Find(k) \/ O_Publish(k) \/ O_Update(k)

SpecOverlap == InitOverlap /\ [][NextOverlap]_vars

\* ------------------------------------------- invocations that keep coming
\* the last firing of the scheduler within the horizon is at or after this
\* minute (a firing is CronPeriod after the end of the run before it)
LastFiring == (MaxTime \div CronPeriod - 1) * CronPeriod

\* the invocations from the last firing on meet no fault: they stand for the
\* invocations that keep occurring after the faults have stopped
HorizonQuiet ==
  clock' >= LastFiring => storeFaults' = storeFaults /\ failures' = failures

LiveNext ==
  \/ Tick /\ HorizonQuiet
  \/ Elapse /\ HorizonQuiet
  \/ StartRun /\ HorizonQuiet
  \/ Exit /\ HorizonQuiet
  \/ Kill /\ HorizonQuiet
  \/ ConfigMissing /\ HorizonQuiet
  \/ UncaughtException /\ HorizonQuiet
  \/ MainRejected /\ HorizonQuiet
  \/ resetOrphanedPosts /\ HorizonQuiet
  \/ findReadyPost /\ HorizonQuiet
  \/ W_Publish /\ HorizonQuiet
  \/ W_Update /\ HorizonQuiet
  \/ W_Need /\ HorizonQuiet
  \/ W_Prepare /\ HorizonQuiet
  \/ W_ImmPublish /\ HorizonQuiet
  \/ W_ImmUpdate /\ HorizonQuiet
  \/ W_NextPrepare /\ HorizonQuiet
  \/ S_Find /\ HorizonQuiet
  \/ S_Publish /\ HorizonQuiet
  \/ S_Update /\ HorizonQuiet
  \/ S_Need /\ HorizonQuiet
  \/ S_Schedule /\ HorizonQuiet
  \/ S_Prepare /\ HorizonQuiet
  \/ S_ImmPublish /\ HorizonQuiet
  \/ S_ImmUpdate /\ HorizonQuiet

\* every step that can be taken is taken: the scheduler keeps firing, a fired
\* invocation starts, and a started invocation runs to its end
FairSpec == Init /\ [][LiveNext]_vars /\ WF_vars(LiveNext)


\* ------------------------------------------- a scheduler that fires often
\* the scheduler fires FinePeriod minutes after the last firing
TickFine ==
  /\ pc = "idle"
  /\ clock + FinePeriod <= MaxTime
  /\ clock' = clock + FinePeriod
  /\ fired' = TRUE
  /\ UNCHANGED <<orch, writer, site, posts, handed, pc, loc, lastCall, sweeps,
                 storeFaults, failures, exitCode, articles>>

\* the store returns no error
StoreQuiet == storeFaults' = storeFaults

NextFine ==
  \/ Tick /\ StoreQuiet
  \/ Elapse /\ StoreQuiet
  \/ StartRun /\ StoreQuiet
  \/ Exit /\ StoreQuiet
  \/ Kill /\ StoreQuiet
  \/ ConfigMissing /\ StoreQuiet
  \/ UncaughtException /\ StoreQuiet
  \/ MainRejected /\ StoreQuiet
  \/ resetOrphanedPosts /\ StoreQuiet
  \/ findReadyPost /\ StoreQuiet
  \/ W_Publish /\ StoreQuiet
  \/ W_Update /\ StoreQuiet
  \/ W_Need /\ StoreQuiet
  \/ W_Prepare /\ StoreQuiet
  \/ W_ImmPublish /\ StoreQuiet
  \/ W_ImmUpdate /\ StoreQuiet
  \/ W_NextPrepare /\ StoreQuiet
  \/ S_Find /\ StoreQuiet
  \/ S_Publish /\ StoreQuiet
  \/ S_Update /\ StoreQuiet
  \/ S_Need /\ StoreQuiet
  \/ S_Schedule /\ StoreQuiet
  \/ S_Prepare /\ StoreQuiet
  \/ S_ImmPublish /\ StoreQuiet
  \/ S_ImmUpdate /\ StoreQuiet
  \/ TickFine

SpecFine == Init /\ [][NextFine]_vars

\* --------------------------------------------- preparations in a row
\* the next invocation calls preparePostData again
PrepAgain ==
  /\ pc \in {"prep_saved", "prep_posted"}
  /\ Len(posts) < MaxPreparations
  /\ pc' = "prep_ready"
  /\ lastCall' = NoPrepared
  /\ UNCHANGED <<fired, orch, writer, site, clock, posts, handed, loc, sweeps,
                 storeFaults, failures, exitCode, articles>>

NextPrepSeq == NextPrep \/ PrepAgain

SpecPrepSeq == InitPrep /\ [][NextPrepSeq]_vars

\* ======================================================================
\* Claims
\* ======================================================================
Ready == StatusIs("ready_to_post")

Confirmed(ret) == ret \in {"URL", "POSTED_SUCCESSFULLY"}

StatusBefore(i) == IF i <= Len(posts) THEN posts[i].status ELSE "none"

\* C1: across non-overlapping invocations the body of a posts record is handed
\* to publishTwitterPost at most once, also when an invocation is killed or its
\* status write fails after the publish call returned.
C1_HandedAtMostOnce == \A i \in Ids : handed[i] <= 1

\* C2: with a fault-free store, between invocations at most one record is
\* ready_to_post with an unexpired posting window.
Unexpired(i) ==
  clock <= posts[i].scheduled_time_utc + SCHEDULE_GRACE_PERIOD_HOURS * 60

C2_AtMostOneUnexpiredReady ==
  (pc = "idle" /\ storeFaults = 0) =>
    Cardinality({i \in Ready : Unexpired(i)}) <= 1

C2_Witness ==
  /\ pc = "idle"
  /\ storeFaults = 0
  /\ StatusIs("posted") # {}
  /\ Cardinality({i \in Ready : Unexpired(i)}) = 1

\* C3: every status a record takes follows an edge of the lifecycle graph.
\* The original statement has records created in generation_in_progress.
SpecLifecycleEdges ==
  {<<"none", "generation_in_progress">>,
   <<"generation_in_progress", "ready_to_post">>,
   <<"generation_in_progress", "generation_failed">>,
   <<"ready_to_post", "posted">>,
   <<"ready_to_post", "failed_to_post">>,
   <<"ready_to_post", "missed_schedule">>}

CodeLifecycleEdges ==
  {<<"none", "ready_to_post">>,
   <<"none", "generation_failed">>,
   <<"none", "system_error">>,
   <<"ready_to_post", "posted">>,
   <<"ready_to_post", "failed_to_post">>,
   <<"ready_to_post", "missed_schedule">>}

FollowsEdges(edges) ==
  \A i \in 1..Len(posts') :
    /\ StatusBefore(i) # posts'[i].status =>
         <<StatusBefore(i), posts'[i].status>> \in edges
    /\ (StatusBefore(i) # "posted" /\ posts'[i].status = "posted") =>
         (handed[i] >= 1 /\ lastCall.target = i)

C3_Original == [][FollowsEdges(SpecLifecycleEdges)]_vars

\* C3 (amended): a record is created directly in ready_to_post or
\* generation_failed (or, by the process-level handlers, in system_error); from ready_to_post it moves only to posted,
\* failed_to_post or missed_schedule; other states are never left, and no
\* record becomes posted without a publish attempt made on it.
C3_LifecycleOfTheCode == [][FollowsEdges(CodeLifecycleEdges)]_vars

C3_Witness ==
  /\ StatusIs("posted") # {}
  /\ StatusIs("missed_schedule") # {}

\* C4: a record is set to posted only in an invocation in which
\* publishTwitterPost, called on that record, returned a confirmed result.
C4_PostedOnlyWhenConfirmed ==
  [][\A i \in Ids :
       (posts[i].status # "posted" /\ posts'[i].status = "posted") =>
         (lastCall.target = i /\ Confirmed(lastCall.ret))]_vars

C4_Witness ==
  /\ pc = "done"
  /\ lastCall.target \in StatusIs("posted")
  /\ lastCall.ret = "POSTED_SUCCESSFULLY"

\* C5: if the authenticated-state marker is absent from the home page, the
\* article-mode publishTwitterPost returns failure without navigating to the
\* compose page, typing or clicking.
C5_FailsFastWithoutMarker ==
  (pc = "exec_returned" /\ writer = "article" /\ site.launch = "ok"
     /\ site.login = "absent") =>
    /\ lastCall.ret = "NULL"
    /\ lastCall.nav = 0
    /\ lastCall.typed = 0
    /\ lastCall.clicks = 0

\* C6: when the executor's session check fails, the record that was fired is
\* still ready_to_post when the invocation ends.
C6_SessionFailureKeepsReady ==
  (pc = "done" /\ lastCall.loginFailed) =>
    posts[lastCall.target].status = "ready_to_post"

\* C7: an authentication-expired outcome differs from retries exhausted, in
\* the value returned and in the status/error_message persisted.
ExhaustedEnv ==
  [launch |-> "ok", login |-> "present",
   attempts |-> [k \in 1..(PublishMaxRetries + 1) |-> "no_editor"]]

ExhaustedReturn == publishTwitterPost("article", ExhaustedEnv).ret

ExhaustedPersisted ==
  {<<"failed_to_post", FailureMessage(ExhaustedReturn)>>,
   <<"failed_to_post", "Immediate publishing failed or URL not retrieved.">>,
   <<"failed_to_post", "Immediate publishing failed.">>}

C7_AuthExpiredIsDistinct ==
  (pc = "done" /\ lastCall.loginFailed) =>
    /\ lastCall.ret # ExhaustedReturn
    /\ <<posts[lastCall.target].status, posts[lastCall.target].error_message>>
         \notin ExhaustedPersisted

\* C8: the windowed orchestrator hands a ready_to_post record to the executor
\* only if scheduled_time - 30 min <= now <= scheduled_time + 2 h held when it
\* was checked.
InPostingWindow(scheduled, at) ==
  /\ scheduled - SCHEDULE_BUFFER_MINUTES <= at
  /\ at <= scheduled + SCHEDULE_GRACE_PERIOD_HOURS * 60

C8_HandedOnlyInWindow ==
  /\ (orch = "windowed" /\ pc = "publish") =>
       InPostingWindow(posts[loc.postToPublish].scheduled_time_utc,
                       lastCall.checkedAt)
  /\ (orch = "windowed" /\ lastCall.target # NoPost) =>
       InPostingWindow(posts[lastCall.target].scheduled_time_utc,
                       lastCall.checkedAt)

C8_Witness ==
  /\ orch = "windowed"
  /\ pc = "update"
  /\ lastCall.target = loc.postToPublish
  /\ lastCall.checkedAt < posts[loc.postToPublish].scheduled_time_utc

\* C9: the reconciler moves every ready_to_post record whose scheduled time
\* is now - 3 hours or older to missed_schedule with an error_message, and the
\* publish check of the same invocation does not select such a record.
SweepStep == pc = "reset" /\ pc' = "find" /\ storeFaults' = storeFaults

SelectStep == orch = "windowed" /\ pc = "find" /\ pc' = "publish"

Swept(i) ==
  /\ posts'[i].status = "missed_schedule"
  /\ posts'[i].error_message # "NULL"

C9_Original ==
  [][/\ SweepStep =>
          \A i \in Ready :
            posts[i].scheduled_time_utc <= clock - 180 => Swept(i)
     /\ SelectStep =>
          posts[loc'.postToPublish].scheduled_time_utc > clock - 180]_vars

\* C9 (amended): when its store calls succeed, the reconciler moves every
\* ready_to_post record whose scheduled time is strictly older than
\* now - 3 hours to missed_schedule with an error_message, and leaves every
\* other record as it was; the publish check of the same invocation never
\* selects a record scheduled at now - 3 hours or earlier.
C9_SweepsStrictlyOlder ==
  [][/\ SweepStep =>
          \A i \in Ids :
            IF i \in Ready /\ posts[i].scheduled_time_utc < clock - 180
              THEN Swept(i)
              ELSE posts'[i] = posts[i]
     /\ SelectStep =>
          posts[loc'.postToPublish].scheduled_time_utc > clock - 180]_vars

\* a record this sweep demoted: no earlier firing could have swept it
C9_Witness ==
  /\ pc = "find"
  /\ storeFaults = 0
  /\ \E i \in StatusIs("missed_schedule") :
       /\ posts[i].scheduled_time_utc < clock - 180
       /\ posts[i].scheduled_time_utc > clock - CronPeriod - 180
       /\ posts[i].error_message = "Post missed its scheduled time."

\* C10: in the windowed orchestrator the reconciler sweep runs exactly once
\* per invocation and has completed before any call to the executor.
AfterSweep ==
  {"find", "publish", "update", "need", "prepare", "immPublish", "immUpdate",
   "nextPrepare", "done"}

C10_SweepOnceBeforeExecutor ==
  orch = "windowed" =>
    /\ pc = "reset" => (sweeps = 0 /\ lastCall.target = NoPost)
    /\ pc \in AfterSweep => sweeps = 1
    /\ lastCall.target # NoPost => sweeps = 1

C10_Witness ==
  /\ orch = "windowed"
  /\ pc = "update"
  /\ lastCall.target # NoPost
  /\ sweeps = 1
\* C11: a second run of the reconciler on the state it has just swept, at the
\* same clock, changes nothing; and the reconciler never modifies a record
\* whose status is not ready_to_post.
C11_SweepIdempotent ==
  [][(pc = "reset" /\ pc' = "find") =>
       /\ \A i \in Ids \ Ready : posts'[i] = posts[i]
       /\ storeFaults' = storeFaults =>
            (MarkMissed(orphanedPosts(clock)))' = posts']_vars

C11_Witness ==
  /\ pc = "find"
  /\ storeFaults = 0
  /\ StatusIs("posted") # {}
  /\ \E i \in StatusIs("missed_schedule") : posts[i].scheduled_time_utc > 0
  /\ MarkMissed(orphanedPosts(clock)) = posts
\* C12: whenever the store holds a most recent successful publish time T, the
\* scheduled time given to the next prepared record lies in
\* [T + 5h30m, T + 6h30m].
InsertStep ==
  /\ Len(posts') = Len(posts) + 1
  /\ posts'[Len(posts')].status # "system_error"

Inserted == posts'[Len(posts')]

C12_Original ==
  [][(InsertStep /\ lastSuccess # NULL /\ storeFaults' = 0) =>
       /\ Inserted.scheduled_time_utc >= lastSuccess + 330
       /\ Inserted.scheduled_time_utc <= lastSuccess + 390]_vars

\* the time the planner is anchored at: the publish of this run, else the
\* most recent posted_at_utc in the store
PlannerAnchor ==
  IF loc.lastPostTimestampForScheduling # NULL
    THEN loc.lastPostTimestampForScheduling
    ELSE lastSuccess

\* s is T + 6h + jitter when that is not in the past, else now + d + |jitter|
Planned(T, now, d, s) ==
  \/ /\ s >= T + 330
     /\ s < T + 390
     /\ s >= now
  \/ /\ T + 330 < now
     /\ s >= now + d
     /\ s <= now + d + 30

\* C12 (amended): when the planner has an anchor T and its store calls
\* succeed, the scheduled time is T + 6h + jitter, jitter in [-30m, +30m), if
\* that is not before the clock of the computation, and otherwise the clock
\* plus a delay d (0 windowed, 1 min simple) plus at most 30 min; the record
\* prepared after an immediate publish is scheduled at the clock of its own
\* computation + 6h + jitter.  When the last-success lookup returns an error
\* the planner has no anchor and schedules within 31 min of the clock.
C12_PlannedFromAnchor ==
  [][/\ (orch = "windowed" /\ pc = "prepare" /\ InsertStep
           /\ storeFaults' = storeFaults /\ PlannerAnchor # NULL) =>
          Planned(PlannerAnchor, clock, 0, Inserted.scheduled_time_utc)
     /\ (orch = "simple" /\ pc = "schedule" /\ pc' = "prepare"
           /\ storeFaults' = storeFaults /\ PlannerAnchor # NULL) =>
          Planned(PlannerAnchor, clock, 1, loc'.nextScheduledTimeUTC)
     /\ (orch = "simple" /\ pc = "prepare" /\ InsertStep) =>
          Inserted.scheduled_time_utc = loc.nextScheduledTimeUTC
     /\ (orch = "windowed" /\ pc = "prepare" /\ InsertStep
           /\ storeFaults' # storeFaults) =>
          /\ Inserted.scheduled_time_utc >= clock
          /\ Inserted.scheduled_time_utc <= clock + 31
     /\ (orch = "simple" /\ pc = "schedule" /\ pc' = "prepare"
           /\ storeFaults' # storeFaults) =>
          /\ loc'.nextScheduledTimeUTC >= clock
          /\ loc'.nextScheduledTimeUTC <= clock + 31
     /\ (pc = "nextPrepare" /\ InsertStep) =>
          /\ Inserted.scheduled_time_utc >= clock + 330
          /\ Inserted.scheduled_time_utc < clock + 390]_vars

C12_Witness ==
  /\ pc = "idle"
  /\ lastSuccess # NULL
  /\ \E i \in Ready :
       /\ posts[i].scheduled_time_utc > lastSuccess + 390
       /\ posts[i].scheduled_time_utc >= clock
\* C13: the scheduled time stored on a newly inserted record is never earlier
\* than the clock at the moment of the insert, on every preparation path and
\* however long the content preparation takes.
C13_NeverInsertedInThePast ==
  [][InsertStep => Inserted.scheduled_time_utc >= clock]_vars
\* C14: the planner's result is never earlier than the clock read at the
\* computation; when last publish + interval + jitter lies in the past, the
\* result is the clock plus a strictly positive delay plus the jitter magnitude.
WindowedPlanStep == orch = "windowed" /\ pc = "prepare" /\ InsertStep

SimplePlanStep == orch = "simple" /\ pc = "schedule" /\ pc' = "prepare"

\* the anchored time lies in the past whatever the jitter
SurelyPast ==
  /\ storeFaults' = storeFaults
  /\ PlannerAnchor # NULL
  /\ PlannerAnchor + 390 <= clock

C14_Original ==
  [][/\ WindowedPlanStep =>
          /\ Inserted.scheduled_time_utc >= clock
          /\ SurelyPast => Inserted.scheduled_time_utc > clock
     /\ SimplePlanStep =>
          /\ loc'.nextScheduledTimeUTC >= clock
          /\ SurelyPast => loc'.nextScheduledTimeUTC > clock]_vars

\* C14 (amended): the planner's result is never earlier than the clock read
\* at the computation; a time that lies in the past is replaced by the clock
\* plus the jitter magnitude in the windowed orchestrator (no added delay, so
\* the result may equal the clock) and by the clock plus one minute plus the
\* jitter magnitude in the simple orchestrator.
C14_ClampedToNow ==
  [][/\ WindowedPlanStep =>
          /\ Inserted.scheduled_time_utc >= clock
          /\ SurelyPast => Inserted.scheduled_time_utc <= clock + 30
     /\ SimplePlanStep =>
          /\ loc'.nextScheduledTimeUTC >= clock
          /\ SurelyPast =>
               /\ loc'.nextScheduledTimeUTC >= clock + 1
               /\ loc'.nextScheduledTimeUTC <= clock + 31]_vars

C14_Witness ==
  /\ orch = "windowed"
  /\ pc = "done"
  /\ lastSuccess # NULL
  /\ lastSuccess + 390 <= clock
  /\ \E i \in Ready : i = Len(posts) /\ posts[i].scheduled_time_utc = clock

\* the first invocation on an empty store has ended, after calling the publisher
FirstRunEnded ==
  /\ pc = "done"
  /\ clock < CronPeriod
  /\ MIN_TIME_BEFORE_FIRST_POST_MS = 0
  /\ storeFaults = 0
  /\ lastCall.target # NoPost

\* C15: with an empty store in bootstrap-immediate mode, the first invocation
\* ends with exactly one record in posted or failed_to_post scheduled at the
\* invocation time and exactly one further record in ready_to_post scheduled
\* about 6 hours later, whatever the outcome of the immediate publish.
C15_BootstrapLeavesOnePending ==
  FirstRunEnded =>
    /\ Len(posts) = 2
    /\ posts[1].status \in {"posted", "failed_to_post"}
    /\ posts[1].scheduled_time_utc = 0
    /\ posts[2].status = "ready_to_post"
    /\ posts[2].scheduled_time_utc >= 330
    /\ posts[2].scheduled_time_utc <= 390 + MaxRunMinutes

\* the statuses the specification lists as carrying an error_message
FailureStatuses == {"failed_to_post", "generation_failed", "missed_schedule"}

\* C16: for every record at every time, error_message is non-null if and only
\* if its status is failed_to_post, generation_failed or missed_schedule.
C16_Original ==
  \A i \in Ids :
    posts[i].error_message # "NULL" <=> posts[i].status \in FailureStatuses

\* C16 (amended): error_message is non-null if and only if the status is
\* failed_to_post, generation_failed, missed_schedule or system_error.
C16_MessageIffFailure ==
  \A i \in Ids :
    posts[i].error_message # "NULL" <=>
      posts[i].status \in FailureStatuses \cup {"system_error"}

C16_Witness ==
  /\ StatusIs("system_error") # {}
  /\ StatusIs("missed_schedule") # {}
  /\ \E i \in StatusIs("posted") : posts[i].error_message = "NULL"

\* C17: no operation of the orchestrators or the reconciler changes the
\* scheduled_time_utc of an existing record; every update leaves it as it was
\* set at insertion, and no record is removed.
C17_ScheduledTimeImmutable ==
  [][/\ Len(posts') >= Len(posts)
     /\ \A i \in Ids :
          posts'[i].scheduled_time_utc = posts[i].scheduled_time_utc]_vars

C17_Witness ==
  /\ \E i \in StatusIs("posted") :
       /\ posts[i].scheduled_time_utc > 0
       /\ posts[i].posted_at_utc # posts[i].scheduled_time_utc
  /\ \E i \in StatusIs("missed_schedule") : posts[i].scheduled_time_utc > 0

\* the attempt of the call in which the submit action was clicked and the
\* settle wait elapsed: the first one that does not end in the retry handler
SettledAttempts ==
  {k \in DOMAIN site.attempts :
     /\ site.attempts[k] \in {"confirmed_url", "confirmed_nourl", "recovery_throws"}
     /\ \A j \in 1..(k - 1) :
          site.attempts[j] \notin {"confirmed_url", "confirmed_nourl",
                                   "recovery_throws"}}

CompletedStep == pc = "done" /\ pc' = "idle"

\* the process stopped at the startup check, before main()
StartupFailureStep == pc = "idle" /\ pc' = "idle" /\ fired /\ ~fired'

\* the process exited from inside a run: an exception left main() or reached
\* the process-level handlers (a kill leaves no exit code)
EscapedStep == pc \notin {"idle", "done"} /\ pc' = "idle" /\ exitCode' # NULL

\* the store accepted every write of the step and a system_error row was added
SystemErrorWritten ==
  storeFaults' = storeFaults =>
    /\ Len(posts') = Len(posts) + 1
    /\ posts'[Len(posts')].status = "system_error"
    /\ posts'[Len(posts')].error_message # "NULL"

\* C19: the process exits with code 0 after every completed run, and with
\* code 1 when required configuration is missing at startup or when an
\* exception escapes main; in the latter case a system_error record is written
\* best-effort before the exit.
C19_ExitCodes ==
  [][/\ CompletedStep => exitCode' = 0
     /\ StartupFailureStep => exitCode' = 1
     /\ EscapedStep => (exitCode' = 1 /\ SystemErrorWritten)]_vars

\* C20: an invocation creates no new record when an unexpired ready_to_post
\* record already exists and nothing was published in that invocation, also
\* when the store query that checks for existing ready_to_post records
\* returns an error.
C20_NoSecondPending ==
  [][(InsertStep /\ ~Confirmed(lastCall.ret)) =>
       {i \in Ready : Unexpired(i)} = {}]_vars

\* the step in which a run finishes one content preparation
PreparationStep ==
  /\ pc \in {"prepare", "nextPrepare"}
  /\ pc' \in {"done", "immPublish"}

\* C21: every time the orchestrator runs content preparation, exactly one new
\* record is persisted for it: ready_to_post with the generated body on
\* success, or generation_failed with a non-null error_message on failure,
\* each carrying the computed scheduled_time; this includes the follow-up
\* preparation after a bootstrap-immediate publish.
C21_OneRecordPerPreparation ==
  [][(PreparationStep /\ storeFaults' = storeFaults) =>
       /\ Len(posts') = Len(posts) + 1
       /\ posts'[Len(posts')].scheduled_time_utc # NULL
       /\ \/ /\ posts'[Len(posts')].status = "ready_to_post"
             /\ posts'[Len(posts')].posted_text # "NULL"
          \/ /\ posts'[Len(posts')].status = "generation_failed"
             /\ posts'[Len(posts')].error_message # "NULL"]_vars

\* C22: a record is published in the invocation that created it (the
\* bootstrap-immediate path) only if the store holds no posted record at that
\* moment, also when the lookup of the last successful publish time fails.
C22_ImmediateOnlyWithoutPosted ==
  pc = "immPublish" => StatusIs("posted") = {}

\* C23: whenever a publish attempt on a record fails, by publishTwitterPost
\* returning failure or raising an exception, the record is failed_to_post
\* with a non-null error_message when the invocation ends, on the scheduled
\* path and on the bootstrap-immediate path.
C23_FailedPublishIsRecorded ==
  (pc = "done" /\ lastCall.target # NoPost /\ ~Confirmed(lastCall.ret)
     /\ storeFaults = 0) =>
    /\ posts[lastCall.target].status = "failed_to_post"
    /\ posts[lastCall.target].error_message # "NULL"

\* the reply has the three labelled sections in the fixed order: the first
\* label is the alignment note, then the topic, then the tweet, once each
WellFormedReply(r) ==
  \E a, g, t \in 1..Len(r) :
    /\ a < g /\ g < t
    /\ r[a] = "A" /\ r[g] = "G" /\ r[t] = "T"
    /\ \A i \in 1..Len(r) : r[i] \in {"A", "G", "T"} => i \in {a, g, t}

\* C26: a model reply that lacks any of the three labelled sections, or has
\* them out of order, is a failed attempt: generateNewPost returns no body for
\* it; it is never accepted as a partial success.
C26_MalformedReplyHasNoBody ==
  (pc = "gen_returned" /\ site.api = "ok" /\ ~WellFormedReply(site.reply)) =>
    lastCall.tweet = <<>>

\* the i-th model call of the invocation yields a body the generator accepts
AttemptValid(i) == generateNewPost(site.gens[i]).tweet # <<>>

\* the invocation got past the selection and entered the generation loop
LoopEntered ==
  IF writer = "article"
    THEN lastCall.articleId # 0 /\ site.selection # "content_fails"
    ELSE site.selection = "ok"

\* the generation loop of a returned invocation: at most three calls, left at
\* the first valid attempt, failure when all three were invalid
LoopOutcome ==
  /\ lastCall.modelCalls <= GenerationMaxRetries
  /\ lastCall.success =>
       /\ AttemptValid(lastCall.modelCalls)
       /\ \A i \in 1..(lastCall.modelCalls - 1) : ~AttemptValid(i)
       /\ lastCall.postText = generateNewPost(site.gens[lastCall.modelCalls]).tweet

C25_PublishableBodyIsValid ==
  \A i \in 1..Len(posts) :
    posts[i].status \in {"ready_to_post", "posted"} =>
      /\ posts[i].posted_text # <<>>
      /\ Length(posts[i].posted_text) >= MinTweetLength
      /\ ~Includes(posts[i].posted_text, "q")
      /\ ~Includes(posts[i].posted_text, "e")

C25_Witness ==
  /\ pc = "prep_posted"
  /\ posts[Len(posts)].status = "posted"
  /\ posts[Len(posts)].posted_text = <<"w">>
  /\ site.gens[1].reply = <<"T", "e">>
  /\ site.gens[2].reply = <<"T", "s">>
  /\ lastCall.modelCalls = 3

\* the attempt ended in an exception that reached the catch of the retry loop
AttemptRaised(o) == o \in {"goto_throws", "no_editor", "no_button", "settle_throws"}

\* at most three attempts, each one after the first made because the one
\* before it raised, and none made after an attempt that did not raise
AttemptsBounded ==
  /\ lastCall.attempts <= PublishMaxRetries + 1
  /\ \A i \in 1..(lastCall.attempts - 1) : AttemptRaised(site.attempts[i])
  /\ (lastCall.attempts >= 1 /\ lastCall.attempts < PublishMaxRetries + 1) =>
       ~AttemptRaised(site.attempts[lastCall.attempts])

AllAttemptsRaised ==
  /\ lastCall.attempts = PublishMaxRetries + 1
  /\ \A i \in 1..(PublishMaxRetries + 1) : AttemptRaised(site.attempts[i])

C28_OldestPendingHardStop ==
  [][(pc = "prep_ready" /\ writer = "article") =>
       LET id == lastCall'.articleId
           pending == {j \in 1..Len(articles) : articles[j].status = "pending"}
       IN /\ (pending # {} /\ site.selection # "select_error") => id \in pending
          /\ id # 0 =>
               /\ id \in pending
               /\ \A j \in pending : articles[id].timestamp <= articles[j].timestamp
               /\ \A j \in 1..Len(articles) : j # id => articles'[j] = articles[j]
          /\ (id # 0 /\ site.selection = "content_fails") =>
               /\ ~lastCall'.success
               /\ lastCall'.modelCalls = 0
               /\ site.updateOk => articles'[id].status = "failed"]_vars

C28_Witness ==
  /\ pc = "prep_returned"
  /\ writer = "article"
  /\ site.selection = "content_fails"
  /\ Len(articles) = 2
  /\ articles[1].status = "pending"
  /\ articles[2].status = "failed"
  /\ articles[2].timestamp < articles[1].timestamp
  /\ lastCall.articleId = 2
  /\ lastCall.modelCalls = 0

\* the Article the invocation processed, whose generated post was saved and
\* then published successfully
ArticlePostPublished ==
  /\ writer = "article"
  /\ pc = "prep_posted"
  /\ lastCall.articleId # 0
  /\ articles[lastCall.articleId].status = "processed"
  /\ posts[Len(posts)].status = "posted"

\* C29: an Article that was marked processed and whose generated post is
\* later published successfully eventually has its status set to posted
C29_PublishedArticleBecomesPosted ==
  ArticlePostPublished ~>
    (lastCall.articleId # 0 /\ articles[lastCall.articleId].status = "posted")

\* the topics of the 7 most recent posts
MostRecentTopics ==
  {site.table[i] : i \in {j \in 1..Len(site.table) : j <= RecentTopicsWindow}}
    \ {<<>>}

\* C30: a topic taken from the topic table never overlaps (case-insensitive
\* substring in either direction) any of the 7 most recently used post
\* topics, unless every candidate topic overlaps one of them
C30_TopicAvoidsRecent ==
  (pc = "topic_returned" /\ lastCall.fromTable) =>
    \/ ~\E avoid \in MostRecentTopics : Overlaps(avoid, lastCall.searchTopic)
    \/ \A t \in site.availableTopics :
         \E avoid \in MostRecentTopics : Overlaps(avoid, t)

\* C31: every time a topic is picked from the topic table, that topic's
\* last-used timestamp is set to the current time, also when the pick is made
\* by the fallback taken when every candidate was excluded
C31_PickedTopicIsTouched ==
  (pc = "topic_returned" /\ lastCall.fromTable) =>
    lastCall.touched = lastCall.searchTopic

\* C32: a posts record has a non-null published_url only if its status is
\* posted, every posted record has published_url and published_time non-null,
\* and a failed_to_post record has published_time set and published_url null
C32_PublicationFields ==
  \A i \in 1..Len(posts) :
    /\ posts[i].post_url # "NULL" => posts[i].status = "posted"
    /\ posts[i].status = "posted" =>
         posts[i].post_url # "NULL" /\ posts[i].posted_at_utc # NULL
    /\ posts[i].status = "failed_to_post" =>
         posts[i].posted_at_utc # NULL /\ posts[i].post_url = "NULL"

C32_Witness ==
  \E i, j \in 1..Len(posts) :
    /\ posts[i].status = "posted"
    /\ posts[i].post_url = "https://x.com/posted-successfully"
    /\ posts[j].status = "failed_to_post"
    /\ posts[j].posted_at_utc # NULL

\* C33: if two invocations overlap in time, no ready_to_post record is handed
\* to the executor by both of them, and a status write by one invocation
\* never overwrites a terminal status written by the other
C33_OverlapIsSafe ==
  [][/\ \A i \in 1..Len(posts) : handed'[i] <= 1
     /\ \A i \in 1..Len(posts) :
          posts[i].status \in {"posted", "failed_to_post"} =>
            posts'[i].status = posts[i].status]_vars

\* C34: at the end of every invocation of the windowed orchestrator, no
\* record is left in ready_to_post whose posting window has already closed
\* (now > scheduled_time + graceHours), when the store returned no error and
\* no invocation was killed or failed to publish
C34_NoStaleReadyAtEnd ==
  (orch = "windowed" /\ pc = "done" /\ storeFaults = 0 /\ failures = 0) =>
    \A i \in StatusIs("ready_to_post") :
      clock <= posts[i].scheduled_time_utc + SCHEDULE_GRACE_PERIOD_HOURS * 60

\* records scheduled before this minute are orphaned at the last firing
cutoffTime_Horizon == LastFiring - (SCHEDULE_GRACE_PERIOD_HOURS + 1) * 60

\* the window of record i closed, and the sweep of the last firing covers it
SweptByLastFiring(i) ==
  posts[i].scheduled_time_utc # NULL
    /\ posts[i].scheduled_time_utc < cutoffTime_Horizon

C36_SubmitClickedOnce ==
  pc = "exec_returned" => lastCall.clicks <= 1

\* the least gap the claim allows between two publications: the interval less
\* the jitter and the early-firing buffer, in minutes
MinPublicationGap ==
  HOURS_BETWEEN_POSTS * 60 - MAX_TIME_VARIATION_MS - SCHEDULE_BUFFER_MINUTES

\* C37: across non-overlapping invocations with a fault-free store, any two
\* successful publications have published_time values at least 5 hours apart
C37_PublicationsFiveHoursApart ==
  storeFaults = 0 =>
    \A i, j \in StatusIs("posted") :
      i # j => Abs(posts[i].posted_at_utc - posts[j].posted_at_utc) >= MinPublicationGap

C37_Witness ==
  /\ orch = "windowed"
  /\ storeFaults = 0
  /\ \E i, j \in StatusIs("posted") :
       /\ i # j
       /\ posts[j].posted_at_utc - posts[i].posted_at_utc = MinPublicationGap
       /\ posts[j].scheduled_time_utc =
            posts[i].posted_at_utc + HOURS_BETWEEN_POSTS * 60 - MAX_TIME_VARIATION_MS

\* C38: with a fault-free store no Article is selected for drafting more than
\* once: the Article a call selects is pending when it is selected and has
\* left pending when the call returns, and no Article ever returns to pending
C38_ArticleSelectedOnce ==
  [][/\ (pc = "prep_ready" /\ site.updateOk /\ lastCall'.articleId # 0) =>
          /\ articles[lastCall'.articleId].status = "pending"
          /\ articles'[lastCall'.articleId].status # "pending"
     /\ \A j \in 1..Len(articles) :
          articles[j].status # "pending" => articles'[j].status # "pending"]_vars

C38_Witness ==
  /\ pc = "prep_returned"
  /\ site.updateOk
  /\ Len(posts) = 1
  /\ Len(articles) = 2
  /\ lastCall.articleId = 2
  /\ articles[1].status = "failed"
  /\ articles[2].status = "failed"

\* C39: in the discovery-mode writer, once publishTwitterPost has clicked the
\* submit action and the settle wait has elapsed, the call returns a confirmed
\* (non-null) result even when the permalink cannot be recovered
C39_DiscoverySettledIsConfirmed ==
  (/\ pc = "exec_returned"
   /\ writer = "discovery"
   /\ site.launch = "ok") =>
    \A k \in SettledAttempts : Confirmed(lastCall.ret)

====
